---- MODULE Spec2Model ----
(***************************************************************************)
(* A model of src/main.py: the FinancialAnalysis class (fetch_data,        *)
(* calculate_financial_ratios, the three plot_* methods and                *)
(* generate_analysis_report) and the run of main() over it.                *)
(*                                                                         *)
(* A pandas float64 cell is modelled as an extended rational [n, d]:       *)
(* d > 0 is the reduced fraction n/d, d = 0 is +inf (n = 1), -inf (n = -1) *)
(* or NaN (n = 0).  Rounding error of the binary representation is not     *)
(* modelled.                                                               *)
(***************************************************************************)
EXTENDS Integers, Sequences, FiniteSets, TLC

VARIABLES
    companies,        \* self.companies
    source,           \* what the data provider answers for each company
    balance_sheets,   \* self.balance_sheets (a dict: keys in insertion order)
    ratios,           \* self.ratios (a dict: keys in insertion order)
    pc,               \* position of main()
    i,                \* index of the company the current loop of main() is at
    figures,          \* matplotlib's open figures, the current one last
    files,            \* files written under the output directory
    charts,           \* what each written or abandoned chart was given to draw
    calls,            \* the plot_* calls main() made, with their results
    report            \* the value generate_analysis_report returned

vars == <<companies, source, balance_sheets, ratios, pc, i, figures, files,
          charts, calls, report>>

----------------------------------------------------------------------------
(* Bounds of the model *)

MaxDate == 2
MaxVal == 2

----------------------------------------------------------------------------
(* float64 arithmetic on extended rationals *)

Abs(x) == IF x < 0 THEN -x ELSE x

Sgn(x) == IF x < 0 THEN -1 ELSE IF x > 0 THEN 1 ELSE 0

RECURSIVE GCD(_, _)
GCD(a, b) == IF b = 0 THEN a ELSE GCD(b, a % b)

Q(n, d) ==
    IF d = 0 THEN [n |-> Sgn(n), d |-> 0]
    ELSE LET g == GCD(Abs(n), Abs(d))
         IN  [n |-> Sgn(d) * (n \div g), d |-> Abs(d) \div g]

NaN == [n |-> 0, d |-> 0]

IsNaN(v) == v.d = 0 /\ v.n = 0

IsInf(v) == v.d = 0 /\ v.n # 0

Float(x) == [n |-> x, d |-> 1]

Neg(v) == [n |-> -v.n, d |-> v.d]

\* a / b on float64: x/0 is +-inf, 0/0 and inf/inf are NaN, x/inf is 0
FDiv(a, b) ==
    IF IsNaN(a) \/ IsNaN(b) THEN NaN
    ELSE IF IsInf(a)
         THEN IF IsInf(b) THEN NaN
              ELSE [n |-> a.n * (IF b.n < 0 THEN -1 ELSE 1), d |-> 0]
    ELSE IF IsInf(b) THEN Float(0)
    ELSE Q(a.n * b.d, a.d * b.n)

\* a - b on float64: inf - inf is NaN
FSub(a, b) ==
    IF IsNaN(a) \/ IsNaN(b) THEN NaN
    ELSE IF IsInf(a)
         THEN IF IsInf(b) /\ a.n = b.n THEN NaN ELSE a
    ELSE IF IsInf(b) THEN Neg(b)
    ELSE Q(a.n * b.d - b.n * a.d, a.d * b.d)

FAdd(a, b) == FSub(a, Neg(b))

\* a < b on float64: every comparison with NaN is False
FLess(a, b) ==
    /\ ~IsNaN(a)
    /\ ~IsNaN(b)
    /\ IF IsInf(a) THEN a.n < 0 /\ ~(IsInf(b) /\ b.n < 0)
       ELSE IF IsInf(b) THEN b.n > 0
       ELSE a.n * b.d < b.n * a.d

----------------------------------------------------------------------------
(* Balance-sheet tables (pandas DataFrames) and Python dicts *)

Range(s) == {s[k] : k \in 1..Len(s)}

CurrentAssets == "Current Assets"

CurrentLiabilities == "Current Liabilities"

Inventory == "Inventory"

TotalAssets == "Total Assets"

TotalLiabilities == "Total Liabilities Net Minority Interest"

StockholdersEquity == "Stockholders Equity"

NonCurrentAssets == "Total Non Current Assets"

NonCurrentLiabilities == "Total Non Current Liabilities Net Minority Interest"

LineItems ==
    {CurrentAssets, CurrentLiabilities, Inventory, TotalAssets, TotalLiabilities,
     StockholdersEquity, NonCurrentAssets, NonCurrentLiabilities}

\* the line items calculate_financial_ratios looks up without a presence test
RequiredItems ==
    {CurrentAssets, CurrentLiabilities, TotalAssets, TotalLiabilities,
     StockholdersEquity}

\* a DataFrame with no rows and no columns
EmptyFrame == [columns |-> <<>>, index |-> {}, cell |-> <<>>]

\* DataFrame.empty: some axis has length 0
IsEmpty(bs) == Len(bs.columns) = 0 \/ bs.index = {}

EmptyDict == [keys |-> <<>>, val |-> <<>>]

Has(dict, k) == k \in Range(dict.keys)

\* dict[k] = v: a new key goes last, an old key keeps its place
Put(dict, k, v) ==
    [keys |-> IF Has(dict, k) THEN dict.keys ELSE Append(dict.keys, k),
     val  |-> [x \in Range(dict.keys) \cup {k} |->
                  IF x = k THEN v ELSE dict.val[x]]]

----------------------------------------------------------------------------
(* The inputs: the company list and the provider's answers *)

\* companies of main()
MainCompanies == <<"AAPL", "MSFT", "GOOGL">>

\* quarterly period labels, most recent first: one quarter, which differs
\* from company to company, or the two most recent quarters
PeriodSeqs ==
    {<<d>> : d \in 1..MaxDate} \cup {<<MaxDate, MaxDate - 1>>}

\* one plausible balance sheet: assets = liabilities + equity in every period
ShapeValue(item, d) ==
    CASE item = CurrentAssets -> d + 1
      [] item = NonCurrentAssets -> 9 - d
      [] item = Inventory -> 1
      [] item = TotalAssets -> 10
      [] item = CurrentLiabilities -> 1
      [] item = NonCurrentLiabilities -> 6
      [] item = TotalLiabilities -> 7
      [] item = StockholdersEquity -> 3

\* a table with the given periods and the given line items absent, its cells
\* taken from value[item][period]
Table(cols, missing, value) ==
    [columns |-> cols,
     index   |-> LineItems \ missing,
     cell    |-> [item \in LineItems \ missing |->
                     [d \in Range(cols) |-> value[item][d]]]]

\* tables that differ in shape: which periods they have, which line item is absent
ShapeTables ==
    {Table(cols, missing,
           [item \in LineItems |-> [d \in Range(cols) |-> ShapeValue(item, d)]]) :
        cols \in PeriodSeqs,
        missing \in {{}} \cup {{item} : item \in LineItems}}

\* the values one period may hold: ratios below, at and above the report's
\* thresholds, and every denominator zero or not
PeriodValues ==
    {[item \in LineItems |->
        CASE item = CurrentAssets -> ca
          [] item = CurrentLiabilities -> cl
          [] item = Inventory -> inv
          [] item = TotalAssets -> ta
          [] item = TotalLiabilities -> tl
          [] item = StockholdersEquity -> se
          [] item = NonCurrentAssets -> 8
          [] item = NonCurrentLiabilities -> 6] :
        ca \in 0..MaxVal, cl \in 0..1, inv \in 0..1,
        ta \in {0, 10}, tl \in {7, 8}, se \in {0, 3}}

\* what the provider does for one company: the lookup raises, or returns a table
Answers(tables) ==
    {[raises |-> TRUE, bs |-> EmptyFrame], [raises |-> FALSE, bs |-> EmptyFrame]}
    \cup {[raises |-> FALSE, bs |-> t] : t \in tables}

\* the company lists of the runs: main()'s list or a prefix of it
CompanyLists == {SubSeq(MainCompanies, 1, n) : n \in 1..Len(MainCompanies)}

----------------------------------------------------------------------------
(* fetch_data *)

\* FetchOne without the test of bs.empty
FetchOneWithoutEmptyTest(dict, company) ==
    LET answer == source[company]
    IN  IF answer.raises THEN dict ELSE Put(dict, company, answer.bs)

\* one iteration of the loop: an exception and an empty table both store nothing
FetchOne(dict, company) ==
    LET answer == source[company]
    IN  IF answer.raises THEN dict
        ELSE IF IsEmpty(answer.bs) THEN dict
        ELSE Put(dict, company, answer.bs)

\* the loop over a company list, from its k-th company on
RECURSIVE FetchFrom(_, _, _)
FetchFrom(list, k, dict) ==
    IF k > Len(list) THEN dict
    ELSE FetchFrom(list, k + 1, FetchOne(dict, list[k]))

----------------------------------------------------------------------------
(* calculate_financial_ratios *)

RatioNames == {"Current_Ratio", "Quick_Ratio", "Debt_to_Assets", "Equity_Multiplier"}

\* ratios[name] = series
WithColumn(frame, name, series) ==
    [frame EXCEPT !.cell = [c \in DOMAIN frame.cell \cup {name} |->
                               IF c = name THEN series ELSE frame.cell[c]]]

\* bs.loc[item] as a float64 Series
Row(bs, item) == [d \in Range(bs.columns) |-> Float(bs.cell[item][d])]

\* InventoryOf with another default for a table without Inventory
InventoryOfDefaultsToOne(bs) ==
    IF Inventory \in bs.index THEN Row(bs, Inventory)
    ELSE [d \in Range(bs.columns) |-> Float(1)]

\* the Inventory row, or the scalar 0 when the table has none
InventoryOf(bs) ==
    IF Inventory \in bs.index THEN Row(bs, Inventory)
    ELSE [d \in Range(bs.columns) |-> Float(0)]

\* the body of the try block: the frame built so far, and whether a lookup
\* of an absent line item raised KeyError before the frame was complete
ComputeRatios(bs) ==
    LET dates == Range(bs.columns)
        f0 == [index |-> bs.columns, cell |-> <<>>]
    IN  IF ~({CurrentAssets, CurrentLiabilities} \subseteq bs.index)
        THEN [raised |-> TRUE, ratios |-> f0]
        ELSE
        LET current_assets == Row(bs, CurrentAssets)
            current_liabilities == Row(bs, CurrentLiabilities)
            f1 == WithColumn(f0, "Current_Ratio",
                      [d \in dates |-> FDiv(current_assets[d], current_liabilities[d])])
            inventory == InventoryOf(bs)
            f2 == WithColumn(f1, "Quick_Ratio",
                      [d \in dates |-> FDiv(FSub(current_assets[d], inventory[d]),
                                            current_liabilities[d])])
        IN  IF ~({TotalAssets, TotalLiabilities} \subseteq bs.index)
            THEN [raised |-> TRUE, ratios |-> f2]
            ELSE
            LET total_assets == Row(bs, TotalAssets)
                total_liabilities == Row(bs, TotalLiabilities)
                f3 == WithColumn(f2, "Debt_to_Assets",
                          [d \in dates |-> FDiv(total_liabilities[d], total_assets[d])])
            IN  IF StockholdersEquity \notin bs.index
                THEN [raised |-> TRUE, ratios |-> f3]
                ELSE
                LET stockholders_equity == Row(bs, StockholdersEquity)
                    f4 == WithColumn(f3, "Equity_Multiplier",
                              [d \in dates |->
                                  FDiv(total_assets[d], stockholders_equity[d])])
                IN  [raised |-> FALSE, ratios |-> f4]

\* CalculateOne storing the frame as columns are added, so that a KeyError
\* leaves what was computed before it
CalculateOneKeepsPartial(dict, company, bs) ==
    Put(dict, company, ComputeRatios(bs).ratios)

\* one iteration of the loop: the frame is stored only when the try block
\* ran to its end
CalculateOne(dict, company, bs) ==
    LET r == ComputeRatios(bs)
    IN  IF r.raised THEN dict ELSE Put(dict, company, r.ratios)

\* the loop over the items of a balance-sheet dict, from its k-th item on
RECURSIVE CalculateFrom(_, _, _)
CalculateFrom(sheets, k, dict) ==
    IF k > Len(sheets.keys) THEN dict
    ELSE CalculateFrom(sheets, k + 1,
             CalculateOne(dict, sheets.keys[k], sheets.val[sheets.keys[k]]))

----------------------------------------------------------------------------
(* The chart methods.  plt.figure / plt.subplots open a figure and make it  *)
(* the current one; plt.close() closes the current one.                     *)

OpenFigure(figs, label) == Append(figs, label)

CloseFigure(figs) == SubSeq(figs, 1, Len(figs) - 1)

File(name, company) == [name |-> name, company |-> company]

Call(fn, company, returned) == [fn |-> fn, company |-> company, returned |-> returned]

\* the companies of the input list that have a ratio table, in list order
AvailableCompanies == SelectSeq(companies, LAMBDA c : Has(ratios, c))

\* plot_current_ratio_comparison: one line per company with a ratio table
CurrentRatioLines ==
    [k \in 1..Len(AvailableCompanies) |->
        LET c == AvailableCompanies[k]
        IN  [company |-> c,
             dates   |-> ratios.val[c].index,
             values  |-> [j \in 1..Len(ratios.val[c].index) |->
                             ratios.val[c].cell["Current_Ratio"][ratios.val[c].index[j]]]]]

\* plot_debt_ratio_radar: the period every polygon is read at
RadarDate == ratios.val[AvailableCompanies[1]].index[1]

\* the first company whose ratio table has no row for RadarDate (the lookup
\* Series[latest_date] raises KeyError there), or 0 when every table has one
RadarRaisesAt ==
    LET bad == {k \in 1..Len(AvailableCompanies) :
                   RadarDate \notin Range(ratios.val[AvailableCompanies[k]].index)}
    IN  IF bad = {} THEN 0 ELSE CHOOSE k \in bad : \A j \in bad : k <= j

\* the polygon of one company at RadarDate
Polygon(c) ==
    [company |-> c,
     values  |-> <<ratios.val[c].cell["Debt_to_Assets"][RadarDate],
                   ratios.val[c].cell["Current_Ratio"][RadarDate],
                   ratios.val[c].cell["Quick_Ratio"][RadarDate],
                   ratios.val[c].cell["Equity_Multiplier"][RadarDate]>>]

\* the polygons drawn before the loop ended or raised
RadarPolygons ==
    LET n == IF RadarRaisesAt = 0 THEN Len(AvailableCompanies) ELSE RadarRaisesAt - 1
    IN  [k \in 1..n |-> Polygon(AvailableCompanies[k])]

\* plot_balance_sheet_composition: the line items its try block looks up
CompositionItems ==
    {TotalAssets, CurrentAssets, NonCurrentAssets, TotalLiabilities,
     CurrentLiabilities, NonCurrentLiabilities, StockholdersEquity}

\* ax.pie raises ValueError on a negative wedge size
PieRaises(wedges) == \E k \in 1..Len(wedges) : wedges[k] < 0

\* the two pies of one company at its most recent period
Pies(c) ==
    LET bs == balance_sheets.val[c]
        latest_date == bs.columns[1]
    IN  [company |-> c,
         date    |-> latest_date,
         assets  |-> <<bs.cell[CurrentAssets][latest_date],
                       bs.cell[NonCurrentAssets][latest_date]>>,
         liabilities_equity |->
                     <<bs.cell[CurrentLiabilities][latest_date],
                       bs.cell[NonCurrentLiabilities][latest_date],
                       bs.cell[StockholdersEquity][latest_date]>>]

\* whether the try block of plot_balance_sheet_composition raises
CompositionRaises(c) ==
    \/ ~(CompositionItems \subseteq balance_sheets.val[c].index)
    \/ PieRaises(Pies(c).assets)
    \/ PieRaises(Pies(c).liabilities_equity)

----------------------------------------------------------------------------
(* generate_analysis_report *)

\* n/d rounded to the nearest integer, an exact tie to the even one
\* (what float formatting does for a value the float holds exactly)
Round(n, d) ==
    LET q == n \div d
        r == n % d
    IN  IF 2 * r < d THEN q
        ELSE IF 2 * r > d THEN q + 1
        ELSE IF q % 2 = 0 THEN q ELSE q + 1

\* format(v, spec) for spec ".2f" (scale 100) and ".2%" (scale 10000): the
\* digits as a count of hundredths, or the text of a non-finite float
Format(v, scale) ==
    IF IsNaN(v) THEN [text |-> "nan", digits |-> 0]
    ELSE IF IsInf(v) THEN [text |-> IF v.n > 0 THEN "inf" ELSE "-inf", digits |-> 0]
    ELSE [text |-> "", digits |-> Round(v.n * scale, v.d)]

\* a column of a ratio table as the sequence of its values in index order
Series(frame, name) ==
    [k \in 1..Len(frame.index) |-> frame.cell[name][frame.index[k]]]

\* Series.ffill(): a NaN takes the last value before it
RECURSIVE Pad(_)
Pad(s) ==
    IF Len(s) <= 1 THEN s
    ELSE LET head == Pad(SubSeq(s, 1, Len(s) - 1))
             last == IF IsNaN(s[Len(s)]) THEN head[Len(head)] ELSE s[Len(s)]
         IN  Append(head, last)

\* Series.pct_change(): data / data.shift(1) - 1 on the padded data
PctChange(s) ==
    LET data == Pad(s)
    IN  [k \in 1..Len(s) |->
            IF k = 1 THEN NaN
            ELSE FSub(FDiv(data[k], data[k - 1]), Float(1))]

RECURSIVE Sum(_)
Sum(s) == IF Len(s) = 0 THEN Float(0) ELSE FAdd(Sum(Tail(s)), Head(s))

\* Series.mean(): the mean of the values that are not NaN, NaN when none is
Mean(s) ==
    LET kept == SelectSeq(s, LAMBDA v : ~IsNaN(v))
    IN  IF Len(kept) = 0 THEN NaN ELSE FDiv(Sum(kept), Float(Len(kept)))

\* the trend section: neither pct_change nor mean raises on a float64 column,
\* so the except branch ("Unable to calculate trends") is never taken
TrendLines(frame) ==
    [k \in 1..2 |->
        LET ratio == <<"Current_Ratio", "Debt_to_Assets">>[k]
            trend == Mean(PctChange(Series(frame, ratio)))
        IN  [line  |-> "Average Change Rate",
             ratio |-> ratio,
             rate  |-> Format(trend, 10000)]]

MonitorLiquidity == "- Monitor short-term liquidity position"

HighDebt == "- High debt ratio, monitor long-term solvency risk"

\* Recommendations with the liquidity line at Current_Ratio <= 2
RecommendationsAtOrBelowTwo(latest_ratios) ==
    (IF ~FLess(Float(2), latest_ratios["Current_Ratio"])
     THEN <<MonitorLiquidity>> ELSE <<>>)
    \o
    (IF FLess(Q(7, 10), latest_ratios["Debt_to_Assets"])
     THEN <<HighDebt>> ELSE <<>>)

\* the recommendations section; 0.7 is the float nearest to 7/10
Recommendations(latest_ratios) ==
    (IF FLess(latest_ratios["Current_Ratio"], Float(2))
     THEN <<MonitorLiquidity>> ELSE <<>>)
    \o
    (IF FLess(Q(7, 10), latest_ratios["Debt_to_Assets"])
     THEN <<HighDebt>> ELSE <<>>)

\* the row of the ratio table at the first index entry
LatestRatios(frame) == [name \in RatioNames |-> frame.cell[name][frame.index[1]]]

\* the report section of one company
Section(company, frame) ==
    LET latest_ratios == LatestRatios(frame)
    IN  [company           |-> company,
         analysis_date     |-> frame.index[1],
         current_ratio     |-> Format(latest_ratios["Current_Ratio"], 100),
         quick_ratio       |-> Format(latest_ratios["Quick_Ratio"], 100),
         debt_to_assets    |-> Format(latest_ratios["Debt_to_Assets"], 10000),
         equity_multiplier |-> Format(latest_ratios["Equity_Multiplier"], 100),
         trend             |-> TrendLines(frame),
         recommendations   |-> Recommendations(latest_ratios)]

Reverse(s) == [k \in 1..Len(s) |-> s[Len(s) + 1 - k]]

\* ReportCompanies visiting the ratio tables instead of the company list,
\* the last stored first
ReportCompaniesByTable(list, dict) == Reverse(dict.keys)

\* the companies the report loop visits and does not skip, in visiting order
ReportCompanies(list, dict) == SelectSeq(list, LAMBDA c : Has(dict, c))

\* the sections of the report over a company list and a dict of ratio
\* tables, in the order they are appended
ReportSections(list, dict) ==
    LET visited == ReportCompanies(list, dict)
    IN  [k \in 1..Len(visited) |-> Section(visited[k], dict.val[visited[k]])]

----------------------------------------------------------------------------
(* main() *)

NoCharts == [lines |-> <<>>, polygons |-> <<>>, pies |-> <<>>]

NoReport == [generated |-> FALSE, sections |-> <<>>]

\* the state after FinancialAnalysis(companies): main()'s list (or a prefix)
\* against tables of every shape
InitShapes ==
    /\ companies \in CompanyLists
    /\ source \in [Range(companies) -> Answers(ShapeTables)]

\* a single company against one- and two-quarter tables of every value, with
\* or without the Inventory line item
InitValues ==
    /\ companies = SubSeq(MainCompanies, 1, 1)
    /\ \E cols \in {<<1>>, <<2, 1>>}, missing \in {{}, {Inventory}} :
          \E vals \in [Range(cols) -> PeriodValues] :
             LET value == [item \in LineItems |-> [d \in Range(cols) |-> vals[d][item]]]
             IN  source = [c \in Range(companies) |->
                              [raises |-> FALSE, bs |-> Table(cols, missing, value)]]

Init ==
    /\ InitShapes \/ InitValues
    /\ balance_sheets = EmptyDict
    /\ ratios = EmptyDict
    /\ pc = "fetch_data"
    /\ i = 1
    /\ figures = <<>>
    /\ files = {}
    /\ charts = NoCharts
    /\ calls = <<>>
    /\ report = NoReport

FetchData ==
    /\ pc = "fetch_data"
    /\ balance_sheets' = FetchFrom(companies, 1, balance_sheets)
    /\ pc' = "calculate_financial_ratios"
    /\ UNCHANGED <<companies, source, ratios, i, figures, files, charts, calls, report>>

CalculateFinancialRatios ==
    /\ pc = "calculate_financial_ratios"
    /\ ratios' = CalculateFrom(balance_sheets, 1, ratios)
    /\ pc' = "plot_current_ratio_comparison"
    /\ UNCHANGED <<companies, source, balance_sheets, i, figures, files, charts,
                   calls, report>>

PlotCurrentRatioComparison ==
    /\ pc = "plot_current_ratio_comparison"
    /\ charts' = [charts EXCEPT !.lines = CurrentRatioLines]
    /\ files' = files \cup {File("current_ratio_comparison.png", "")}
    /\ figures' = CloseFigure(OpenFigure(figures, "current_ratio_comparison"))
    /\ calls' = Append(calls, Call("plot_current_ratio_comparison", "", "path"))
    /\ pc' = "plot_debt_ratio_radar"
    /\ UNCHANGED <<companies, source, balance_sheets, ratios, i, report>>

\* returns None without a figure, or draws and saves, or raises KeyError out
\* of main()'s try block with the figure still open
PlotDebtRatioRadar ==
    /\ pc = "plot_debt_ratio_radar"
    /\ IF Len(AvailableCompanies) = 0
       THEN /\ calls' = Append(calls, Call("plot_debt_ratio_radar", "", "None"))
            /\ pc' = "plot_balance_sheet_composition"
            /\ UNCHANGED <<figures, files, charts>>
       ELSE /\ charts' = [charts EXCEPT !.polygons = RadarPolygons]
            /\ IF RadarRaisesAt # 0
               THEN /\ figures' = OpenFigure(figures, "debt_ratio_radar")
                    /\ calls' = Append(calls, Call("plot_debt_ratio_radar", "", "raised"))
                    /\ pc' = "program_error"
                    /\ UNCHANGED files
               ELSE /\ figures' = CloseFigure(OpenFigure(figures, "debt_ratio_radar"))
                    /\ files' = files \cup {File("debt_ratio_radar.png", "")}
                    /\ calls' = Append(calls, Call("plot_debt_ratio_radar", "", "path"))
                    /\ pc' = "plot_balance_sheet_composition"
    /\ UNCHANGED <<companies, source, balance_sheets, ratios, i, report>>

\* one call of the loop over companies: None without a figure for a company
\* with no balance sheet, None with the figure left open when the try block
\* raises, else the saved chart
PlotBalanceSheetComposition ==
    /\ pc = "plot_balance_sheet_composition"
    /\ i <= Len(companies)
    /\ LET company == companies[i]
           fn == "plot_balance_sheet_composition"
       IN  IF ~Has(balance_sheets, company)
           THEN /\ calls' = Append(calls, Call(fn, company, "None"))
                /\ UNCHANGED <<figures, files, charts>>
           ELSE IF CompositionRaises(company)
           THEN /\ figures' = OpenFigure(figures, fn)
                /\ calls' = Append(calls, Call(fn, company, "None"))
                /\ UNCHANGED <<files, charts>>
           ELSE /\ figures' = CloseFigure(OpenFigure(figures, fn))
                /\ charts' = [charts EXCEPT !.pies = Append(@, Pies(company))]
                /\ files' = files \cup {File("balance_sheet_composition.png", company)}
                /\ calls' = Append(calls, Call(fn, company, "path"))
    /\ i' = i + 1
    /\ pc' = IF i = Len(companies) THEN "generate_analysis_report" ELSE pc
    /\ UNCHANGED <<companies, source, balance_sheets, ratios, report>>

GenerateAnalysisReport ==
    /\ pc = "generate_analysis_report"
    /\ report' = [generated |-> TRUE, sections |-> ReportSections(companies, ratios)]
    /\ pc' = "write_report"
    /\ UNCHANGED <<companies, source, balance_sheets, ratios, i, figures, files,
                   charts, calls>>

WriteReport ==
    /\ pc = "write_report"
    /\ files' = files \cup {File("financial_analysis_report.txt", "")}
    /\ pc' = "done"
    /\ UNCHANGED <<companies, source, balance_sheets, ratios, i, figures, charts,
                   calls, report>>

Next ==
    \/ FetchData
    \/ CalculateFinancialRatios
    \/ PlotCurrentRatioComparison
    \/ PlotDebtRatioRadar
    \/ PlotBalanceSheetComposition
    \/ GenerateAnalysisReport
    \/ WriteReport

Spec == Init /\ [][Next]_vars

----------------------------------------------------------------------------
(* Properties *)

Fetched == pc # "fetch_data"

Calculated == pc \notin {"fetch_data", "calculate_financial_ratios"}

Ended == pc \in {"done", "program_error"}

\* the fetch of a company returned an empty table or raised
Failed(c) == source[c].raises \/ IsEmpty(source[c].bs)

\* the company list without the companies whose fetch failed
Survivors == SelectSeq(companies, LAMBDA c : ~Failed(c))

\* the ratio tables of a run over Survivors alone
SurvivorRatios ==
    CalculateFrom(FetchFrom(Survivors, 1, EmptyDict), 1, EmptyDict)

\* the companies some chart drew something for
ChartCompanies ==
    {charts.lines[k].company : k \in 1..Len(charts.lines)}
    \cup {charts.polygons[k].company : k \in 1..Len(charts.polygons)}
    \cup {charts.pies[k].company : k \in 1..Len(charts.pies)}

SectionCompanies == [k \in 1..Len(report.sections) |-> report.sections[k].company]

\* C1: a company whose fetch returned an empty table or raised has no entry
\* in balance_sheets or ratios, is drawn in no chart, has no file and no
\* report section; and the ratio tables, when calculate_financial_ratios has
\* returned and when main() has ended, and the report sections are those of
\* a run over the list without the failed companies.
C1_FailedFetchIsIsolated ==
    /\ \A c \in Range(companies) :
          Failed(c) =>
             /\ ~Has(balance_sheets, c)
             /\ ~Has(ratios, c)
             /\ c \notin ChartCompanies
             /\ \A f \in files : f.company # c
             /\ c \notin Range(SectionCompanies)
    /\ (pc = "plot_current_ratio_comparison" \/ Ended) =>
          LET expected == SurvivorRatios
          IN  /\ ratios = expected
              /\ report.generated =>
                    report.sections = ReportSections(Survivors, expected)

\* a finished run of three companies: the first fetch raised, the second
\* returned an empty table, the third company has the report's only section
C1_Witness ==
    /\ pc = "done"
    /\ Len(companies) = 3
    /\ source[companies[1]].raises
    /\ ~source[companies[2]].raises /\ IsEmpty(source[companies[2]].bs)
    /\ SectionCompanies = <<companies[3]>>
    /\ File("balance_sheet_composition.png", companies[3]) \in files

\* C2 (as claimed): a company with a zero Current Liabilities, Total Assets
\* or Stockholders Equity in some period has no entry in ratios after
\* calculate_financial_ratios.
C2_ZeroDenominatorSkipsCompany ==
    Calculated =>
       \A c \in Range(balance_sheets.keys) :
          LET bs == balance_sheets.val[c]
          IN  (\E item \in {CurrentLiabilities, TotalAssets, StockholdersEquity}
                              \cap bs.index :
                  \E d \in Range(bs.columns) : bs.cell[item][d] = 0)
              => ~Has(ratios, c)

\* C3: after calculate_financial_ratios a company of balance_sheets has a
\* ratio table exactly when its balance sheet has every required line item,
\* and a ratio table has all four ratios for the balance sheet's periods.
C3_MissingItemSkipsOnlyThatCompany ==
    Calculated =>
       \A c \in Range(balance_sheets.keys) :
          LET bs == balance_sheets.val[c]
          IN  IF RequiredItems \subseteq bs.index
              THEN /\ Has(ratios, c)
                   /\ DOMAIN ratios.val[c].cell = RatioNames
                   /\ ratios.val[c].index = bs.columns
              ELSE ~Has(ratios, c)

\* three balance sheets, the second without Stockholders Equity (the last
\* item looked up): the first and the third company have their ratio tables
C3_Witness ==
    /\ Calculated
    /\ Len(balance_sheets.keys) = 3
    /\ StockholdersEquity \notin balance_sheets.val[balance_sheets.keys[2]].index
    /\ RequiredItems \ {StockholdersEquity}
          \subseteq balance_sheets.val[balance_sheets.keys[2]].index
    /\ ratios.keys = <<balance_sheets.keys[1], balance_sheets.keys[3]>>

\* C4 (as claimed): when main() has ended, every company's composition chart
\* was attempted and the report was generated and written, whatever chart
\* call failed before.
C4_ChartFailureDoesNotAbort ==
    Ended =>
       /\ \A c \in Range(companies) :
             \E k \in 1..Len(calls) :
                /\ calls[k].fn = "plot_balance_sheet_composition"
                /\ calls[k].company = c
       /\ report.generated
       /\ File("financial_analysis_report.txt", "") \in files

\* C5 (as claimed): the trend section of a company whose ratio table has
\* fewer than two periods holds the 'Unable to calculate trends' line and no
\* average change rate.
C5_ShortTableTrendUnavailable ==
    report.generated =>
       \A k \in 1..Len(report.sections) :
          LET s == report.sections[k]
          IN  Len(ratios.val[s.company].index) < 2 =>
                 /\ \E j \in 1..Len(s.trend) :
                       s.trend[j].line = "Unable to calculate trends"
                 /\ \A j \in 1..Len(s.trend) :
                       s.trend[j].line # "Average Change Rate"

\* C6: the recommendations of every report section are the liquidity line
\* exactly when Current Assets / Current Liabilities of the company's most
\* recent period is below 2, followed by the debt line exactly when Total
\* Liabilities / Total Assets of that period is above 7/10 (amounts are not
\* negative; x/0 is +inf for x > 0 and NaN for x = 0), and nothing else.
C6_RecommendationThresholds ==
    report.generated =>
       \A k \in 1..Len(report.sections) :
          LET s == report.sections[k]
              bs == balance_sheets.val[s.company]
              d == bs.columns[1]
              ca == bs.cell[CurrentAssets][d]
              cl == bs.cell[CurrentLiabilities][d]
              ta == bs.cell[TotalAssets][d]
              tl == bs.cell[TotalLiabilities][d]
              liquidity == cl > 0 /\ ca < 2 * cl
              debt == (ta > 0 /\ 10 * tl > 7 * ta) \/ (ta = 0 /\ tl > 0)
          IN  s.recommendations =
                 (IF liquidity THEN <<MonitorLiquidity>> ELSE <<>>)
                 \o (IF debt THEN <<HighDebt>> ELSE <<>>)

\* a section of a company whose most recent period has Current_Ratio 2/1 and
\* Debt_to_Assets 8/10 and whose older period has Current_Ratio 1/1: the
\* debt line alone
C6_Witness ==
    /\ report.generated
    /\ \E k \in 1..Len(report.sections) :
          LET s == report.sections[k]
              bs == balance_sheets.val[s.company]
          IN  /\ bs.columns = <<2, 1>>
              /\ bs.cell[CurrentAssets][2] = 2 /\ bs.cell[CurrentLiabilities][2] = 1
              /\ bs.cell[CurrentAssets][1] = 1 /\ bs.cell[CurrentLiabilities][1] = 1
              /\ bs.cell[TotalLiabilities][2] = 8 /\ bs.cell[TotalAssets][2] = 10
              /\ s.recommendations = <<HighDebt>>

\* C7 (as claimed): between the chart calls no figure is open.
C7_NoFigureLeftOpen == figures = <<>>

\* C8 (as claimed): once plot_debt_ratio_radar has been called, either no
\* company has a ratio table and it returned None, opened no figure and wrote
\* no file, or the polygons it drew are those of the companies with a ratio
\* table, one each, in list order.
C8_RadarPolygonPerCompany ==
    (\E k \in 1..Len(calls) : calls[k].fn = "plot_debt_ratio_radar") =>
       IF Len(AvailableCompanies) = 0
       THEN /\ Call("plot_debt_ratio_radar", "", "None") \in Range(calls)
            /\ charts.polygons = <<>>
            /\ File("debt_ratio_radar.png", "") \notin files
            /\ "debt_ratio_radar" \notin Range(figures)
       ELSE [k \in 1..Len(charts.polygons) |-> charts.polygons[k].company]
               = AvailableCompanies

\* the place of a company in the input list
Place(c) == CHOOSE p \in 1..Len(companies) : companies[p] = c

\* C9: the report has one section for each company with a ratio table, none
\* for any other, and the sections follow the order of the company list.
C9_SectionsInListOrder ==
    report.generated =>
       /\ \A c \in Range(companies) :
             Cardinality({k \in 1..Len(SectionCompanies) : SectionCompanies[k] = c})
                = IF Has(ratios, c) THEN 1 ELSE 0
       /\ Range(SectionCompanies) \subseteq Range(companies)
       /\ \A j, k \in 1..Len(SectionCompanies) :
             j < k => Place(SectionCompanies[j]) < Place(SectionCompanies[k])

\* three companies, the second without a ratio table: the sections are the
\* first company's and the third's, in that order
C9_Witness ==
    /\ report.generated
    /\ Len(companies) = 3
    /\ Has(balance_sheets, companies[2])
    /\ ~Has(ratios, companies[2])
    /\ SectionCompanies = <<companies[1], companies[3]>>

\* C10: in every ratio table Quick_Ratio and Current_Ratio hold the same
\* value (the same quotient, the same infinity, or both NaN) in each period
\* where the balance sheet has no Inventory line item or has Inventory 0, and
\* a balance sheet with every required item and no Inventory has its table.
C10_QuickEqualsCurrentWithoutInventory ==
    Calculated =>
       \A c \in Range(balance_sheets.keys) :
          LET bs == balance_sheets.val[c]
          IN  /\ (Inventory \notin bs.index /\ RequiredItems \subseteq bs.index)
                    => Has(ratios, c)
              /\ Has(ratios, c) =>
                    \A d \in Range(bs.columns) :
                       (Inventory \notin bs.index \/ bs.cell[Inventory][d] = 0)
                          => ratios.val[c].cell["Quick_Ratio"][d]
                                = ratios.val[c].cell["Current_Ratio"][d]

\* a ratio table of a balance sheet without Inventory whose Current_Ratio
\* and Quick_Ratio are both 2/1 in the most recent period
C10_Witness ==
    /\ Calculated
    /\ \E c \in Range(ratios.keys) :
          LET bs == balance_sheets.val[c]
              d == bs.columns[1]
          IN  /\ Inventory \notin bs.index
              /\ bs.cell[CurrentAssets][d] = 2 /\ bs.cell[CurrentLiabilities][d] = 1
              /\ ratios.val[c].cell["Current_Ratio"][d] = Q(2, 1)
              /\ ratios.val[c].cell["Quick_Ratio"][d] = Q(2, 1)

====
